---- MODULE Spec2Model ----
(***************************************************************************)
(* Model of the Custom-Browser repository: the navigation history of the   *)
(* console browsers, the domain firewall, the visit and settings store     *)
(* with its incognito mode, the HTML text and link extractor, the Tor      *)
(* managers of a process and the tabs of the GUI browser.                  *)
(*                                                                         *)
(* Strings are sequences of one-character strings so that startswith,      *)
(* endswith, "in" and urlparse are computed on the text, as the code does. *)
(* Python's None and the empty string are both written <<>>: the code only *)
(* ever tests them for truthiness.                                         *)
(***************************************************************************)
EXTENDS Integers, Sequences, FiniteSets, TLC

(***************************************************************************)
(* Bounds of the model.                                                    *)
(***************************************************************************)
MaxHist == 3
MaxVisits == 2
MaxBlocked == 3
MaxTokens == 3
MaxTabs == 2

(***************************************************************************)
(* String helpers (Python str methods).                                    *)
(***************************************************************************)
Range(s) == {s[i] : i \in DOMAIN s}

StartsWith(s, p) ==
    /\ Len(p) <= Len(s)
    /\ SubSeq(s, 1, Len(p)) = p

EndsWith(s, p) ==
    /\ Len(p) <= Len(s)
    /\ SubSeq(s, Len(s) - Len(p) + 1, Len(s)) = p

\* p in s
Contains(s, p) ==
    \E i \in 1..(Len(s) - Len(p) + 1) : SubSeq(s, i, i + Len(p) - 1) = p

\* index (1-based) of the first character of s, at or after from, that is in
\* chars; Len(s)+1 when there is none
FirstOf(s, chars, from) ==
    LET hits == {i \in from..Len(s) : s[i] \in chars}
    IN  IF hits = {} THEN Len(s) + 1
        ELSE CHOOSE i \in hits : \A j \in hits : i <= j

RECURSIVE Flatten(_)
Flatten(ss) == IF ss = <<>> THEN <<>> ELSE Head(ss) \o Flatten(Tail(ss))

\* list.remove(x): removes the first occurrence only
RemoveFirst(s, x) ==
    LET i == FirstOf(s, {x}, 1)
    IN  IF i > Len(s) THEN s
        ELSE SubSeq(s, 1, i - 1) \o SubSeq(s, i + 1, Len(s))

(***************************************************************************)
(* String literals of the code and of the inputs.                          *)
(***************************************************************************)
NoneStr == <<>>
HTTP == <<"h","t","t","p",":","/","/">>
HTTPS == <<"h","t","t","p","s",":","/","/">>
SchemeSep == <<":","/","/">>
Dot == <<".">>
Space == <<" ">>
AboutBlank == <<"a","b","o","u","t",":","b","l","a","n","k">>
\* "https://www.google.com", the console browser's default_url
GoogleUrl ==
    HTTPS \o <<"w","w","w",".","g","o","o","g","l","e",".","c","o","m">>
\* "https://www.google.com/search?q="
GoogleSearch == GoogleUrl \o <<"/","s","e","a","r","c","h","?","q","=">>

\* hosts used by the inputs
HostA == <<"a",".","c">>
HostSubA == <<"s",".","a",".","c">>
HostXA == <<"x","a",".","c">>

(***************************************************************************)
(* urllib.parse: urlparse(url).netloc, quote_plus and quote.               *)
(***************************************************************************)
SchemeChars == {"a","b","c","e","g","h","k","l","m","n","o","p","q","r","s",
                "t","u","w","x","+","-","."}
Letters == SchemeChars \ {"+","-","."}

\* urlsplit: what is left of url after its scheme ("scheme:") is taken off
AfterScheme(url) ==
    LET i == FirstOf(url, {":"}, 1)
    IN  IF /\ i > 1
           /\ i <= Len(url)
           /\ url[1] \in Letters
           /\ \A j \in 1..(i - 1) : url[j] \in SchemeChars
        THEN SubSeq(url, i + 1, Len(url))
        ELSE url

\* urlsplit: the netloc is what follows a leading "//", up to the first of
\* "/", "?", "#"; without a leading "//" it is empty
Netloc(url) ==
    LET rest == AfterScheme(url)
    IN  IF StartsWith(rest, <<"/","/">>)
        THEN SubSeq(rest, 3, FirstOf(rest, {"/","?","#"}, 3) - 1)
        ELSE <<>>

\* urlsplit raises ValueError("Invalid IPv6 URL") on an unbalanced bracket
UrlParseRaises(url) ==
    LET n == Netloc(url)
    IN  ("[" \in Range(n)) # ("]" \in Range(n))

\* quote_plus: a space becomes "+", reserved characters are percent-encoded,
\* letters, digits and "_.-~" are kept
QuotePlusChar(c) ==
    CASE c = " " -> <<"+">>
      [] c = ":" -> <<"%","3","A">>
      [] c = "/" -> <<"%","2","F">>
      [] c = "[" -> <<"%","5","B">>
      [] OTHER -> <<c>>

QuotePlus(s) == Flatten([i \in DOMAIN s |-> QuotePlusChar(s[i])])

\* quote (safe="/"): a space becomes "%20" and "/" is kept
QuoteChar(c) ==
    CASE c = " " -> <<"%","2","0">>
      [] c = ":" -> <<"%","3","A">>
      [] c = "[" -> <<"%","5","B">>
      [] OTHER -> <<c>>

Quote(s) == Flatten([i \in DOMAIN s |-> QuoteChar(s[i])])

RECURSIVE LStrip(_)
LStrip(s) == IF s # <<>> /\ Head(s) = " " THEN LStrip(Tail(s)) ELSE s

RECURSIVE RStrip(_)
RStrip(s) ==
    IF s # <<>> /\ s[Len(s)] = " " THEN RStrip(SubSeq(s, 1, Len(s) - 1)) ELSE s

\* str.strip()
Strip(s) == RStrip(LStrip(s))

\* seq[i] with a Python index: 0-based, a negative index counts from the end
PyIndex(seq, i) == IF i < 0 THEN seq[Len(seq) + i + 1] ELSE seq[i + 1]

(***************************************************************************)
(* State.                                                                  *)
(*   variant          which program runs: "cli" (browser_cli.py),          *)
(*                    "simple" (simple_browser.py; darkweb_browser.py has  *)
(*                    the same history code), "gui" (the firewall dialog   *)
(*                    of the GUI front ends over db_manager.py), and a     *)
(*                    DatabaseManager driven through its methods: "api"    *)
(*                    (ultimate_browser.py), "api_cli" (browser_cli.py),   *)
(*                    "api_db" (db_manager.py); "extract" is an            *)
(*                    HTMLTextExtractor of browser_cli.py fed a document;  *)
(*                    "links" is the console browser of a user who opens   *)
(*                    pages, follows their numbered links and blocks the   *)
(*                    domain a page redirects to; "tor" is an              *)
(*                    UltimateBrowser with an incognito window, each with  *)
(*                    its TorManager; "tabs" is browser_final.py's         *)
(*                    ModernBrowser with its tabs                          *)
(*   pc               "new" before the DatabaseManager is constructed,     *)
(*                    "start" before main_loop's first fetch, then "loop"; *)
(*                    "raised" when an exception left the program;         *)
(*                    "feed" while a document is fed to the extractor      *)
(*   history, current_index, current_url   the browser's history           *)
(*   incognito_mode   ConsoleBrowser.incognito_mode                        *)
(*   db_incognito     DatabaseManager.incognito                            *)
(*   connected        DatabaseManager.cursor is set: sqlite3.connect       *)
(*                    succeeded                                            *)
(*   blocked_domains  DatabaseManager.blocked_domains, a Python list       *)
(*   firewall         the rows of the firewall table, in rowid order       *)
(*   visits           the rows of the visits table, in rowid order         *)
(*   settings         the settings table: the value of each key, NoneStr   *)
(*                    for a key without a row                              *)
(*   last             the last command: its name, argument and outcome,    *)
(*                    whether it issued a network request, the reason      *)
(*                    given to block_domain, the number of forward         *)
(*                    entries a visit discarded, the location a navigation *)
(*                    was normalized to, the Content-Type of the response  *)
(*                    and whether its body was run through the extractor   *)
(*   parser           an HTMLTextExtractor: its fields                     *)
(*   fed              the tags and texts HTMLParser.feed has handed to the *)
(*                    handlers of parser so far, in document order         *)
(*   tor_enabled, default_socket   the fields of each TorManager of the    *)
(*                    process                                              *)
(*   socket_socket    the module attribute socket.socket: the class every  *)
(*                    connection of the process is made with               *)
(*   tabs             the BrowserTab widgets of browser_final.py's         *)
(*                    BrowserTabs: _url and _title of each                 *)
(*   current_tab      QTabWidget.currentIndex(), -1 without a tab          *)
(***************************************************************************)
VARIABLES variant, pc, history, current_index, current_url, incognito_mode,
          db_incognito, connected, blocked_domains, firewall, visits,
          settings, last, parser, fed, tor_enabled, default_socket,
          socket_socket, tabs, current_tab

vars == <<variant, pc, history, current_index, current_url, incognito_mode,
          db_incognito, connected, blocked_domains, firewall, visits,
          settings, last, parser, fed, tor_enabled, default_socket,
          socket_socket, tabs, current_tab>>

extractorVars == <<parser, fed>>
torVars == <<tor_enabled, default_socket, socket_socket>>
tabVars == <<tabs, current_tab>>
\* what the console browsers, the dialogs and the store never touch
otherVars == <<extractorVars, torVars, tabVars>>

browserVars == <<history, current_index, current_url>>
storeVars == <<db_incognito, connected, blocked_domains, firewall, visits,
               settings>>

(***************************************************************************)
(* The environment: what the network answers.                              *)
(***************************************************************************)
UrlA == HTTPS \o HostA
UrlAPlain == HTTP \o HostA
UrlSubA == HTTP \o HostSubA
UrlXA == HTTP \o HostXA
UrlBadBracket == HTTP \o <<"[","a">>

\* response.geturl(): the requested url, or where the server redirects to
FinalUrls(url) == IF url = UrlA THEN {UrlA, UrlSubA} ELSE {url}

\* the Content-Type a server answers with
HtmlType == "text/html"
ContentTypes(url) == IF url = UrlA THEN {HtmlType, "image/png"} ELSE {HtmlType}

\* the <title> the server's page carries; <<>> when it has none
PageTitle(url) ==
    IF StartsWith(url, GoogleUrl) THEN <<"G">>
    ELSE IF url = UrlSubA THEN <<"S">>
    ELSE <<>>

\* socket.gethostbyname(domain), "Unknown" when it raises
ResolveIp(domain) == IF domain = HostXA THEN "Unknown" ELSE "ip"

(***************************************************************************)
(* The record of the last command.                                         *)
(***************************************************************************)
NoReason == "none"

Cmd(op, arg, result, fetched) ==
    [op |-> op, arg |-> arg, result |-> result, fetched |-> fetched,
     reason |-> NoReason, dropped |-> 0, location |-> NoneStr,
     content_type |-> "none", extracted |-> FALSE]

BlockCmd(domain, reason) ==
    [Cmd("block", domain, "ok", FALSE) EXCEPT !.reason = reason]

\* a navigation: location is the url the firewall check and the request were
\* given
FetchCmd(op, arg, location, result, fetched) ==
    [Cmd(op, arg, result, fetched) EXCEPT !.location = location]

\* a page was loaded and written to the history; dropped counts the forward
\* entries the truncation discarded
LoadedCmd(op, arg, entries, index) ==
    [Cmd(op, arg, "loaded", TRUE)
       EXCEPT !.dropped = Len(entries) - (index + 1)]

\* the response that was received: its Content-Type, and whether its body
\* was given to the extractor
Received(cmd, location, content_type, extracted) ==
    [cmd EXCEPT !.location = location, !.content_type = content_type,
                !.extracted = extracted]

(***************************************************************************)
(* DatabaseManager (db_manager.py, browser_cli.py, ultimate_browser.py).   *)
(***************************************************************************)
DefaultReason == "Manually blocked"
Reasons == {DefaultReason, "phishing"}

\* mutant: the suffix test without the "." in front of the rule
DomainMatchesNoDot(domain, blocked) ==
    \/ domain = blocked
    \/ EndsWith(domain, blocked)

\* domain == blocked or domain.endswith("." + blocked)
DomainMatches(domain, blocked) ==
    \/ domain = blocked
    \/ EndsWith(domain, Dot \o blocked)

\* for blocked in self.blocked_domains: if ...: return True
RECURSIVE AnyBlockedMatches(_, _)
AnyBlockedMatches(domain, blocked_list) ==
    IF blocked_list = <<>> THEN FALSE
    ELSE IF DomainMatches(domain, Head(blocked_list)) THEN TRUE
    ELSE AnyBlockedMatches(domain, Tail(blocked_list))

\* is_domain_blocked: the except clause turns urlparse's ValueError into False
IsDomainBlocked(url, blocked_list) ==
    IF UrlParseRaises(url) THEN FALSE
    ELSE AnyBlockedMatches(Netloc(url), blocked_list)

\* SELECT domain FROM firewall; [] in incognito mode
GetBlockedDomains(incognito, table) ==
    IF incognito THEN <<>>
    ELSE [i \in DOMAIN table |-> table[i].domain]

\* INSERT OR REPLACE INTO firewall: domain is UNIQUE, so the row of the same
\* domain is deleted and the new row gets a fresh rowid
InsertOrReplace(table, domain, reason) ==
    Append(SelectSeq(table, LAMBDA row : row.domain # domain),
           [domain |-> domain, reason |-> reason])

\* DELETE FROM firewall WHERE domain = ?
DeleteDomain(table, domain) ==
    SelectSeq(table, LAMBDA row : row.domain # domain)

\* block_domain in incognito mode: self.blocked_domains.append(domain)
IncognitoBlock(blocked_list, domain) == Append(blocked_list, domain)

\* unblock_domain in incognito mode:
\* if domain in self.blocked_domains: self.blocked_domains.remove(domain)
IncognitoUnblock(blocked_list, domain) == RemoveFirst(blocked_list, domain)

\* what a statement sent to sqlite comes to: it runs, cursor.execute raises
\* (a locked or damaged database), or the write runs and the SELECT of the
\* get_blocked_domains() that follows raises
StorageOutcomes == {"ok", "execute_raises", "select_raises"}

\* block_domain(domain, reason): True in incognito mode and after the write,
\* False without a cursor and when execute raises; get_blocked_domains()
\* answers [] when its SELECT raises, and that becomes the cached list
BlockDomain(domain, reason) ==
    IF db_incognito
    THEN /\ Len(blocked_domains) < MaxBlocked
         /\ blocked_domains' = IncognitoBlock(blocked_domains, domain)
         /\ UNCHANGED firewall
         /\ last' = BlockCmd(domain, reason)
    ELSE IF ~connected
    THEN /\ UNCHANGED <<blocked_domains, firewall>>
         /\ last' = Cmd("block", domain, "failed", FALSE)
    ELSE \E outcome \in StorageOutcomes :
           CASE outcome = "ok" ->
                  /\ firewall' = InsertOrReplace(firewall, domain, reason)
                  /\ blocked_domains' = GetBlockedDomains(FALSE, firewall')
                  /\ last' = BlockCmd(domain, reason)
             [] outcome = "execute_raises" ->
                  /\ UNCHANGED <<blocked_domains, firewall>>
                  /\ last' = Cmd("block", domain, "failed", FALSE)
             [] outcome = "select_raises" ->
                  /\ firewall' = InsertOrReplace(firewall, domain, reason)
                  /\ blocked_domains' = <<>>
                  /\ last' = BlockCmd(domain, reason)

\* unblock_domain(domain), with the same returns
UnblockDomain(domain) ==
    IF db_incognito
    THEN /\ blocked_domains' = IncognitoUnblock(blocked_domains, domain)
         /\ UNCHANGED firewall
         /\ last' = Cmd("unblock", domain, "ok", FALSE)
    ELSE IF ~connected
    THEN /\ UNCHANGED <<blocked_domains, firewall>>
         /\ last' = Cmd("unblock", domain, "failed", FALSE)
    ELSE \E outcome \in StorageOutcomes :
           CASE outcome = "ok" ->
                  /\ firewall' = DeleteDomain(firewall, domain)
                  /\ blocked_domains' = GetBlockedDomains(FALSE, firewall')
                  /\ last' = Cmd("unblock", domain, "ok", FALSE)
             [] outcome = "execute_raises" ->
                  /\ UNCHANGED <<blocked_domains, firewall>>
                  /\ last' = Cmd("unblock", domain, "failed", FALSE)
             [] outcome = "select_raises" ->
                  /\ firewall' = DeleteDomain(firewall, domain)
                  /\ blocked_domains' = <<>>
                  /\ last' = Cmd("unblock", domain, "ok", FALSE)

\* the class of the DatabaseManager each variant constructs
StoreClass(v) ==
    CASE v \in {"cli", "links", "api_cli"} -> "browser_cli"
      [] v \in {"simple", "gui", "api_db", "tabs"} -> "db_manager"
      [] OTHER -> "ultimate_browser"

\* DatabaseManager(incognito): an incognito store opens nothing and starts
\* with an empty list; a durable one connects and loads the list from the
\* firewall table. opened is whether sqlite3.connect succeeded: when it did
\* not, connect() leaves conn and cursor None and get_blocked_domains()
\* answers []
NewStore(incognito, opened) ==
    /\ db_incognito' = incognito
    /\ connected' = (~incognito /\ opened)
    /\ blocked_domains' = IF connected' THEN GetBlockedDomains(FALSE, firewall)
                          ELSE <<>>

\* browser_cli.py add_visit: nothing is written in incognito mode, without
\* a cursor or for a url without a netloc
CliAddVisit(table, incognito, url, title) ==
    IF incognito \/ ~connected \/ Netloc(url) = <<>> THEN table
    ELSE Append(table, [url |-> url, title |-> title,
                        ip_address |-> ResolveIp(Netloc(url))])


\* mutant: only a url without a netloc is skipped
VisitIsSkippedOnlyWithoutDomain(class, incognito, url) ==
    \/ UrlParseRaises(url)
    \/ Netloc(url) = <<>>

\* add_visit writes nothing: in incognito mode or without a cursor (the two
\* classes that know them), when urlparse raises, and for a url without a
\* netloc; db_manager.py and ultimate_browser.py also test the netloc
\* against "about:blank"
VisitIsSkipped(class, incognito, url) ==
    \/ incognito
    \/ ~connected
    \/ UrlParseRaises(url)
    \/ Netloc(url) = <<>>
    \/ class # "browser_cli" /\ Netloc(url) = AboutBlank

\* what add_visit returns when it writes nothing: ultimate_browser.py
\* returns True, except from its except clause; the other two return False
SkippedVisitReturns(class, incognito, url) ==
    IF /\ class = "ultimate_browser"
       /\ (incognito \/ ~connected \/ ~UrlParseRaises(url))
    THEN "ok" ELSE "failed"

\* INSERT INTO visits (url, title, ip_address)
InsertVisit(table, url, title) ==
    Append(table, [url |-> url, title |-> title,
                   ip_address |-> ResolveIp(Netloc(url))])

\* save_setting writes nothing in incognito mode or without a cursor
SettingIsSkipped(incognito) == incognito \/ ~connected

(***************************************************************************)
(* Navigation history, as every variant writes it.                         *)
(***************************************************************************)
\* mutant: the forward entries are kept
TruncateForwardNever(entries, index) == entries

\* if self.current_index < len(self.history) - 1:
\*     self.history = self.history[:self.current_index + 1]
TruncateForward(entries, index) ==
    IF index < Len(entries) - 1 THEN SubSeq(entries, 1, index + 1) ELSE entries

\* self.history.append(url)
AppendEntry(entries, index, url) == Append(TruncateForward(entries, index), url)

\* mutant: the index is set one past the last entry
LastIndexOffByOne(entries) == Len(entries)

\* self.current_index = len(self.history) - 1
LastIndex(entries) == Len(entries) - 1

\* mutant: back is allowed from the first entry
CanGoBackFromFirst(index) == index >= 0

\* if self.current_index > 0:
CanGoBack(index) == index > 0

\* if self.current_index < len(self.history) - 1:
CanGoForward(entries, index) == index < Len(entries) - 1

(***************************************************************************)
(* ConsoleBrowser (browser_cli.py).                                        *)
(***************************************************************************)
\* the variants that run a ConsoleBrowser
ConsoleVariants == {"cli", "links"}

\* fetch_url: a phrase with a space and no dot becomes a search; a url
\* without http:// or https:// gets https://
CliNormalize(url) ==
    LET u == IF Contains(url, Space) /\ ~Contains(url, Dot)
             THEN GoogleSearch \o QuotePlus(url)
             ELSE url
    IN  IF StartsWith(u, HTTP) \/ StartsWith(u, HTTPS) THEN u ELSE HTTPS \o u

\* what is typed, or reached through a numbered link, a bookmark or a row of
\* the history list: each of them calls fetch_url(url)
CliInputs == {HostA, UrlSubA}

\* fetch_url(url0), called with self.current_index = index. The Content-Type
\* is not looked at: whatever was received is decoded and fed to the
\* extractor, and a body that is not HTML has no title. urlopen raises for a
\* url without a host
CliFetchUrl(op, url0, index) ==
    LET url == CliNormalize(url0)
    IN  IF IsDomainBlocked(url, blocked_domains)
        THEN /\ current_index' = index
             /\ UNCHANGED <<history, current_url, visits>>
             /\ last' = FetchCmd(op, url0, url, "blocked", FALSE)
        ELSE \/ \* urlopen raises
                /\ current_index' = index
                /\ UNCHANGED <<history, current_url, visits>>
                /\ last' = FetchCmd(op, url0, url, "error", TRUE)
             \/ \E final_url \in FinalUrls(url) :
                \E content_type \in ContentTypes(final_url) :
                  LET title == IF content_type = HtmlType
                               THEN PageTitle(final_url) ELSE <<>>
                      rows == IF incognito_mode THEN visits
                              ELSE CliAddVisit(visits, db_incognito,
                                               final_url, title)
                  IN  /\ Netloc(url) # <<>>
                      /\ Len(AppendEntry(history, index, final_url)) <= MaxHist
                      /\ Len(rows) <= MaxVisits
                      /\ history' = AppendEntry(history, index, final_url)
                      /\ current_index' = LastIndex(history')
                      /\ current_url' = final_url
                      /\ visits' = rows
                      /\ last' = Received(LoadedCmd(op, url0, history, index),
                                          url, content_type, TRUE)

\* main_loop, before the first prompt: fetch_url(self.default_url)
CliStart ==
    /\ variant \in ConsoleVariants
    /\ pc = "start"
    /\ pc' = "loop"
    /\ CliFetchUrl("start", GoogleUrl, current_index)
    /\ UNCHANGED otherVars
    /\ UNCHANGED <<variant, incognito_mode, db_incognito, connected,
                   blocked_domains, firewall, settings>>

CliOpen(input) ==
    /\ variant \in ConsoleVariants
    /\ pc = "loop"
    /\ CliFetchUrl("open", input, current_index)
    /\ UNCHANGED otherVars
    /\ UNCHANGED <<variant, pc, incognito_mode, db_incognito, connected,
                   blocked_domains, firewall, settings>>

\* go_back: the index moves first, then the entry is fetched again
CliGoBack ==
    /\ variant = "cli"
    /\ pc = "loop"
    /\ IF CanGoBack(current_index)
       THEN CliFetchUrl("back", PyIndex(history, current_index - 1),
                        current_index - 1)
       ELSE /\ UNCHANGED <<history, current_index, current_url, visits>>
            /\ last' = Cmd("back", <<>>, "cant", FALSE)
    /\ UNCHANGED otherVars
    /\ UNCHANGED <<variant, pc, incognito_mode, db_incognito, connected,
                   blocked_domains, firewall, settings>>

CliGoForward ==
    /\ variant = "cli"
    /\ pc = "loop"
    /\ IF CanGoForward(history, current_index)
       THEN CliFetchUrl("forward", PyIndex(history, current_index + 1),
                        current_index + 1)
       ELSE /\ UNCHANGED <<history, current_index, current_url, visits>>
            /\ last' = Cmd("forward", <<>>, "cant", FALSE)
    /\ UNCHANGED otherVars
    /\ UNCHANGED <<variant, pc, incognito_mode, db_incognito, connected,
                   blocked_domains, firewall, settings>>

\* main_loop: command 'refresh' and self.current_url
CliRefresh ==
    /\ variant = "cli"
    /\ pc = "loop"
    /\ current_url # NoneStr
    /\ CliFetchUrl("refresh", current_url, current_index)
    /\ UNCHANGED otherVars
    /\ UNCHANGED <<variant, pc, incognito_mode, db_incognito, connected,
                   blocked_domains, firewall, settings>>

\* what is typed at "Enter domain to block", in each console variant
CliBlockInputs(v) ==
    IF v = "cli" THEN {HostA, <<"x">> \o SchemeSep} ELSE {HostSubA}
CliBlockTexts == CliBlockInputs("cli") \cup CliBlockInputs("links")

\* show_firewall, option b
CliFirewallBlock(text) ==
    /\ variant \in ConsoleVariants
    /\ text \in CliBlockInputs(variant)
    /\ pc = "loop"
    /\ LET typed == Strip(text)
           domain == IF Contains(typed, SchemeSep) THEN Netloc(typed) ELSE typed
       IN  IF typed # <<>> /\ domain # <<>>
           THEN BlockDomain(domain, NoReason)
           ELSE /\ UNCHANGED <<blocked_domains, firewall>>
                /\ last' = Cmd("block", domain, "invalid", FALSE)
    /\ UNCHANGED otherVars
    /\ UNCHANGED <<variant, pc, browserVars, incognito_mode, db_incognito,
                   connected, visits, settings>>

\* show_firewall, option u: the number picks a row of get_blocked_domains()
CliFirewallUnblock ==
    /\ variant = "cli"
    /\ pc = "loop"
    /\ LET domains == GetBlockedDomains(db_incognito, firewall)
       IN  \E number \in 1..Len(domains) :
             UnblockDomain(domains[number])
    /\ UNCHANGED otherVars
    /\ UNCHANGED <<variant, pc, browserVars, incognito_mode, db_incognito,
                   connected, visits, settings>>

\* toggle_incognito: a new DatabaseManager(incognito=self.incognito_mode)
CliToggleIncognito ==
    /\ variant = "cli"
    /\ pc = "loop"
    /\ incognito_mode' = ~incognito_mode
    /\ \E opened \in BOOLEAN : NewStore(incognito_mode', opened)
    /\ last' = Cmd("incognito", <<>>, "ok", FALSE)
    /\ UNCHANGED otherVars
    /\ UNCHANGED <<variant, pc, browserVars, firewall, visits, settings>>

(***************************************************************************)
(* SimpleBrowser (simple_browser.py); DarkWebBrowser has the same history  *)
(* code.                                                                   *)
(***************************************************************************)
\* navigate_to_url: without http:// or https://, a text with a space or
\* without a dot becomes a search, anything else gets http://
SimpleNormalize(url) ==
    IF StartsWith(url, HTTP) \/ StartsWith(url, HTTPS) THEN url
    ELSE IF Contains(url, Space) \/ ~Contains(url, Dot)
         THEN GoogleSearch \o Quote(url)
         ELSE HTTP \o url

SimpleInputs == {HostA, UrlSubA, <<"a"," ","b">>}

\* self.db_manager.add_visit(url, title, ip_address): db_manager.add_visit
\* takes (url, title=None), so the call raises TypeError before it runs
AddVisitCallRaises == TRUE

\* what the request of navigate_to_url can come to
SimpleOutcomes == {"dns_fail", "http_error", "html", "non_html"}

\* navigate_to_url(url0)
SimpleNavigate(url0) ==
    /\ variant = "simple"
    /\ pc = "loop"
    /\ LET url == SimpleNormalize(url0)
       IN  IF IsDomainBlocked(url, blocked_domains)
           THEN /\ UNCHANGED <<browserVars, visits>>
                /\ last' = FetchCmd("open", url0, url, "blocked", FALSE)
           ELSE \E outcome \in SimpleOutcomes :
                  CASE outcome = "dns_fail" ->
                         \* socket.gaierror, before urlopen
                         /\ UNCHANGED <<browserVars, visits>>
                         /\ last' = FetchCmd("open", url0, url, "error",
                                             FALSE)
                    [] outcome = "http_error" ->
                         \* HTTPError or URLError; add_visit raises in the
                         \* handler and the outer except prints it
                         /\ AddVisitCallRaises
                         /\ UNCHANGED <<browserVars, visits>>
                         /\ last' = FetchCmd("open", url0, url, "error",
                                             TRUE)
                    [] outcome = "html" ->
                         \* history is written, then add_visit raises
                         /\ Len(AppendEntry(history, current_index, url))
                              <= MaxHist
                         /\ history' = AppendEntry(history, current_index, url)
                         /\ current_index' = LastIndex(history')
                         /\ current_url' = url
                         /\ AddVisitCallRaises
                         /\ UNCHANGED visits
                         /\ last' = Received(LoadedCmd("open", url0, history,
                                                       current_index),
                                             url, HtmlType, TRUE)
                    [] outcome = "non_html" ->
                         \* add_visit raises before history is written
                         /\ AddVisitCallRaises
                         /\ UNCHANGED <<browserVars, visits>>
                         /\ last' = Received(Cmd("open", url0, "opaque", TRUE),
                                             url, "image/png", FALSE)
    /\ UNCHANGED otherVars
    /\ UNCHANGED <<variant, pc, incognito_mode, db_incognito, connected,
                   blocked_domains, firewall, settings>>

\* go_back: moves the position and sets current_url; nothing is fetched
SimpleGoBack ==
    /\ variant = "simple"
    /\ pc = "loop"
    /\ IF CanGoBack(current_index)
       THEN /\ current_index' = current_index - 1
            /\ current_url' = PyIndex(history, current_index')
            /\ last' = Cmd("back", current_url', "moved", FALSE)
       ELSE /\ UNCHANGED <<current_index, current_url>>
            /\ last' = Cmd("back", <<>>, "cant", FALSE)
    /\ UNCHANGED otherVars
    /\ UNCHANGED <<variant, pc, history, incognito_mode, storeVars>>

SimpleGoForward ==
    /\ variant = "simple"
    /\ pc = "loop"
    /\ IF CanGoForward(history, current_index)
       THEN /\ current_index' = current_index + 1
            /\ current_url' = PyIndex(history, current_index')
            /\ last' = Cmd("forward", current_url', "moved", FALSE)
       ELSE /\ UNCHANGED <<current_index, current_url>>
            /\ last' = Cmd("forward", <<>>, "cant", FALSE)
    /\ UNCHANGED otherVars
    /\ UNCHANGED <<variant, pc, history, incognito_mode, storeVars>>

\* the argument of the block and unblock commands
SimpleBlockInputs == {HostA, UrlAPlain}

\* the domain block_domain and unblock_domain make of their argument
SimpleCleanDomain(text) ==
    IF StartsWith(text, HTTP) \/ StartsWith(text, HTTPS) THEN Netloc(text)
    ELSE text

\* block_domain(domain)
SimpleBlock(text) ==
    /\ variant = "simple"
    /\ pc = "loop"
    /\ LET domain == SimpleCleanDomain(text)
       IN  IF text # <<>> /\ domain # <<>>
           THEN BlockDomain(domain, DefaultReason)
           ELSE /\ UNCHANGED <<blocked_domains, firewall>>
                /\ last' = Cmd("block", domain, "invalid", FALSE)
    /\ UNCHANGED otherVars
    /\ UNCHANGED <<variant, pc, browserVars, incognito_mode, db_incognito,
                   connected, visits, settings>>

\* unblock_domain(domain)
SimpleUnblock(text) ==
    /\ variant = "simple"
    /\ pc = "loop"
    /\ LET domain == SimpleCleanDomain(text)
       IN  IF text # <<>> /\ domain # <<>>
           THEN UnblockDomain(domain)
           ELSE /\ UNCHANGED <<blocked_domains, firewall>>
                /\ last' = Cmd("unblock", domain, "invalid", FALSE)
    /\ UNCHANGED otherVars
    /\ UNCHANGED <<variant, pc, browserVars, incognito_mode, db_incognito,
                   connected, visits, settings>>

(***************************************************************************)
(* The firewall dialog of the GUI front ends (ui/firewall.py               *)
(* FirewallManager, compatible_browser.py FirewallDialog), over            *)
(* db_manager.py.                                                          *)
(***************************************************************************)
\* what is typed into domain_input
DialogInputs == {HostA, UrlSubA, <<"[","a">>, <<"x">> \o SchemeSep, <<" ">>}

\* block_domain: the text is stripped; with "://" in it, its netloc is taken;
\* the result goes to db_manager.block_domain unchecked
DialogBlock(text) ==
    /\ variant = "gui"
    /\ pc = "loop"
    /\ LET typed == Strip(text)
           domain == IF Contains(typed, SchemeSep) THEN Netloc(typed) ELSE typed
       IN  IF typed # <<>>
           THEN BlockDomain(domain, DefaultReason)
           ELSE /\ UNCHANGED <<blocked_domains, firewall>>
                /\ last' = Cmd("block", typed, "invalid", FALSE)
    /\ UNCHANGED otherVars
    /\ UNCHANGED <<variant, pc, browserVars, incognito_mode, db_incognito,
                   connected, visits, settings>>

\* unblock_selected: the selected row of the list update_blocked_list filled
\* from get_blocked_domains()
DialogUnblock ==
    /\ variant = "gui"
    /\ pc = "loop"
    /\ LET domains == GetBlockedDomains(db_incognito, firewall)
       IN  \E row \in 1..Len(domains) :
             UnblockDomain(domains[row])
    /\ UNCHANGED otherVars
    /\ UNCHANGED <<variant, pc, browserVars, incognito_mode, db_incognito,
                   connected, visits, settings>>

(***************************************************************************)
(* DatabaseManager called through its methods.                             *)
(***************************************************************************)
ApiVariants == {"api", "api_cli", "api_db"}
ApiDomains == {HostA, HostSubA}

\* the reasons a caller can pass: browser_cli.py's block_domain takes none
ReasonsOf(class) == IF class = "browser_cli" THEN {NoReason} ELSE Reasons

\* db_manager.block_domain(domain, reason)
ApiBlock(domain, reason) ==
    /\ variant \in ApiVariants
    /\ pc = "loop"
    /\ reason \in ReasonsOf(StoreClass(variant))
    /\ BlockDomain(domain, reason)
    /\ UNCHANGED otherVars
    /\ UNCHANGED <<variant, pc, browserVars, incognito_mode, db_incognito,
                   connected, visits, settings>>

\* db_manager.unblock_domain(domain)
ApiUnblock(domain) ==
    /\ variant \in ApiVariants
    /\ pc = "loop"
    /\ UnblockDomain(domain)
    /\ UNCHANGED otherVars
    /\ UNCHANGED <<variant, pc, browserVars, incognito_mode, db_incognito,
                   connected, visits, settings>>

\* the urls and the title add_visit is called with
ApiVisitUrls == {NoneStr, AboutBlank, UrlA}
ApiTitle == <<"T">>

\* db_manager.add_visit(url, title)
ApiAddVisit(url) ==
    /\ variant \in ApiVariants
    /\ pc = "loop"
    /\ IF VisitIsSkipped(StoreClass(variant), db_incognito, url)
       THEN /\ UNCHANGED visits
            /\ last' = Cmd("add_visit", url,
                           SkippedVisitReturns(StoreClass(variant),
                                               db_incognito, url), FALSE)
       ELSE \/ /\ Len(visits) < MaxVisits
               /\ visits' = InsertVisit(visits, url, ApiTitle)
               /\ last' = Cmd("add_visit", url, "ok", FALSE)
            \/ \* cursor.execute raises
               /\ UNCHANGED visits
               /\ last' = Cmd("add_visit", url, "failed", FALSE)
    /\ UNCHANGED otherVars
    /\ UNCHANGED <<variant, pc, browserVars, incognito_mode, db_incognito,
                   connected, blocked_domains, firewall, settings>>

\* the values saved under the key "dark_mode"
SettingValues == {<<"0">>, <<"1">>}

\* db_manager.save_setting("dark_mode", value); db_manager.py has no settings
ApiSaveSetting(value) ==
    /\ variant \in ApiVariants
    /\ StoreClass(variant) # "db_manager"
    /\ pc = "loop"
    /\ IF SettingIsSkipped(db_incognito)
       THEN /\ UNCHANGED settings
            /\ last' = Cmd("save_setting", value, "failed", FALSE)
       ELSE \/ /\ settings' = value
               /\ last' = Cmd("save_setting", value, "ok", FALSE)
            \/ \* cursor.execute raises
               /\ UNCHANGED settings
               /\ last' = Cmd("save_setting", value, "failed", FALSE)
    /\ UNCHANGED otherVars
    /\ UNCHANGED <<variant, pc, browserVars, incognito_mode, db_incognito,
                   connected, blocked_domains, firewall, visits>>

\* another DatabaseManager(incognito) is constructed on the same database
\* and takes the place of the first
ApiReopen(incognito) ==
    /\ variant \in ApiVariants
    /\ StoreClass(variant) # "db_manager"
    /\ pc = "loop"
    /\ incognito # db_incognito
    /\ \E opened \in BOOLEAN : NewStore(incognito, opened)
    /\ last' = Cmd("reopen", <<>>, "ok", FALSE)
    /\ UNCHANGED otherVars
    /\ UNCHANGED <<variant, pc, browserVars, incognito_mode, firewall, visits,
                   settings>>

(***************************************************************************)
(* HTMLTextExtractor (browser_cli.py). HTMLParser.feed calls               *)
(* handle_starttag, handle_endtag and handle_data in document order, with  *)
(* tag and attribute names in lower case. Inside <script> it is in CDATA   *)
(* mode: up to </script> everything is text.                               *)
(***************************************************************************)
\* self.ignore_tags
ignore_tags == {"script", "style", "meta", "head", "svg", "path"}

\* the tags whose end adds a line break
BlockTags == {"p", "div", "h1", "h2", "h3", "h4", "h5", "h6", "li", "br"}

\* HTMLTextExtractor.__init__
NewParser ==
    [result |-> <<>>, links |-> <<>>, current_link |-> 0, skip_data |-> FALSE,
     in_title |-> FALSE, title |-> NoneStr, in_body |-> FALSE]

\* the entries of self.result: the indicator "[link_id] " of a link, or text
LinkIndicator(link_id) == [kind |-> "indicator", id |-> link_id, text |-> <<>>]
Text(text) == [kind |-> "text", id |-> 0, text |-> text]
LineBreak == Text(<<"\n">>)

\* for attr in attrs: if attr[0].lower() == 'href': href = attr[1]; break
RECURSIVE HrefOf(_)
HrefOf(attrs) ==
    IF attrs = <<>> THEN NoneStr
    ELSE IF Head(attrs)[1] = "href" THEN Head(attrs)[2]
    ELSE HrefOf(Tail(attrs))

\* mutant: the ids start at 0
NextLinkIdFromZero(links) == Len(links)

\* link_id = len(self.links) + 1
NextLinkId(links) == Len(links) + 1

\* handle_starttag(tag, attrs)
StartTag(p, tag, attrs) ==
    IF tag \in ignore_tags THEN [p EXCEPT !.skip_data = TRUE]
    ELSE LET p1 == IF tag = "body" THEN [p EXCEPT !.in_body = TRUE] ELSE p
             p2 == IF tag = "title" THEN [p1 EXCEPT !.in_title = TRUE] ELSE p1
             href == HrefOf(attrs)
             link_id == NextLinkId(p2.links)
         IN  IF tag = "a" /\ href # NoneStr
             THEN [p2 EXCEPT !.links = Append(@, <<link_id, href>>),
                             !.current_link = link_id,
                             !.result = Append(@, LinkIndicator(link_id))]
             ELSE p2

\* handle_endtag(tag)
EndTag(p, tag) ==
    LET p1 == IF tag \in ignore_tags THEN [p EXCEPT !.skip_data = FALSE] ELSE p
        p2 == IF tag = "a" THEN [p1 EXCEPT !.current_link = 0] ELSE p1
        p3 == IF tag = "title" THEN [p2 EXCEPT !.in_title = FALSE] ELSE p2
    IN  IF tag \in BlockTags THEN [p3 EXCEPT !.result = Append(@, LineBreak)]
        ELSE p3

\* handle_data(data)
Data(p, data) ==
    IF p.skip_data THEN p
    ELSE LET p1 == IF p.in_title /\ p.title = NoneStr
                   THEN [p EXCEPT !.title = Strip(data)] ELSE p
         IN  IF Strip(data) # <<>>
             THEN [p1 EXCEPT !.result = Append(@, Text(Strip(data)))]
             ELSE p1

\* what feed hands to the handlers
StartToken(tag, attrs) ==
    [type |-> "start", tag |-> tag, attrs |-> attrs, data |-> <<>>]
EndToken(tag) == [type |-> "end", tag |-> tag, attrs |-> <<>>, data |-> <<>>]
DataToken(data) == [type |-> "data", tag |-> "", attrs |-> <<>>, data |-> data]

\* the documents: their tags, attribute lists and texts
LinkTarget == <<"/","u">>
DocTags == {"a", "head", "script", "title", "p"}
DocAttrs == {<<>>, <<<<"href", LinkTarget>>>>, <<<<"href", NoneStr>>>>,
             <<<<"name", <<"n">>>>, <<"href", UrlA>>>>}
DocTexts == {<<"x">>, <<" ">>}

\* HTMLParser is in CDATA mode: the last tag it saw opened a <script>
RECURSIVE InCData(_)
InCData(tokens) ==
    IF tokens = <<>> THEN FALSE
    ELSE LET t == tokens[Len(tokens)]
         IN  IF t.type = "data" THEN InCData(SubSeq(tokens, 1, Len(tokens) - 1))
             ELSE t.type = "start" /\ t.tag = "script"

\* feed reaches a start tag
HandleStartTag(tag, attrs) ==
    /\ variant = "extract"
    /\ Len(fed) < MaxTokens
    /\ ~InCData(fed)
    /\ tag = "a" \/ attrs = <<>>
    /\ parser' = StartTag(parser, tag, attrs)
    /\ fed' = Append(fed, StartToken(tag, attrs))
    /\ UNCHANGED <<variant, pc, browserVars, incognito_mode, storeVars, last>>
    /\ UNCHANGED <<torVars, tabVars>>

\* feed reaches an end tag
HandleEndTag(tag) ==
    /\ variant = "extract"
    /\ Len(fed) < MaxTokens
    /\ InCData(fed) => tag = "script"
    /\ parser' = EndTag(parser, tag)
    /\ fed' = Append(fed, EndToken(tag))
    /\ UNCHANGED <<variant, pc, browserVars, incognito_mode, storeVars, last>>
    /\ UNCHANGED <<torVars, tabVars>>

\* feed reaches text
HandleData(data) ==
    /\ variant = "extract"
    /\ Len(fed) < MaxTokens
    /\ parser' = Data(parser, data)
    /\ fed' = Append(fed, DataToken(data))
    /\ UNCHANGED <<variant, pc, browserVars, incognito_mode, storeVars, last>>
    /\ UNCHANGED <<torVars, tabVars>>

(***************************************************************************)
(* ConsoleBrowser: following a numbered link of the current page.          *)
(***************************************************************************)
\* parser.feed(content): the handlers run over the document in its order
RECURSIVE Feed(_)
Feed(tokens) ==
    IF tokens = <<>> THEN NewParser
    ELSE LET t == tokens[Len(tokens)]
             p == Feed(SubSeq(tokens, 1, Len(tokens) - 1))
         IN  CASE t.type = "start" -> StartTag(p, t.tag, t.attrs)
               [] t.type = "end" -> EndTag(p, t.tag)
               [] OTHER -> Data(p, t.data)

\* the document a server answers with: the page of s.a.c has a title, a
\* link to "/u" and a link to https://a.c; the other pages have no links
PageDoc(url) ==
    IF url = UrlSubA
    THEN <<StartToken("title", <<>>), DataToken(<<"S">>), EndToken("title"),
           StartToken("a", <<<<"href", LinkTarget>>>>), DataToken(<<"x">>),
           EndToken("a"),
           StartToken("a", <<<<"href", UrlA>>>>), DataToken(<<"x">>),
           EndToken("a")>>
    ELSE IF PageTitle(url) # <<>>
    THEN <<StartToken("title", <<>>), DataToken(PageTitle(url)),
           EndToken("title")>>
    ELSE <<>>

\* self.current_parser.links: the links of the page that was loaded last
PageLinks(url) == Feed(PageDoc(url)).links

\* the numbers typed at the prompt
LinkNumbers == {1, 2}

\* main_loop, a number: the link with that id is looked up in
\* self.current_parser.links and its url is given to fetch_url as it is
CliFollowLink(link_id) ==
    /\ variant = "links"
    /\ pc = "loop"
    /\ current_url # NoneStr
    /\ LET links == PageLinks(current_url)
           found == {i \in DOMAIN links : links[i][1] = link_id}
       IN  IF found # {}
           THEN CliFetchUrl("follow", links[CHOOSE i \in found : TRUE][2],
                            current_index)
           ELSE /\ UNCHANGED <<history, current_index, current_url, visits>>
                /\ last' = Cmd("follow", <<>>, "no_link", FALSE)
    /\ UNCHANGED otherVars
    /\ UNCHANGED <<variant, pc, incognito_mode, db_incognito, connected,
                   blocked_domains, firewall, settings>>

(***************************************************************************)
(* TorManager (ultimate_browser.py; darkweb_browser.py has the same        *)
(* fields). Every UltimateBrowser window constructs its own, and           *)
(* open_incognito_window constructs a second window in the same process.   *)
(***************************************************************************)
Managers == {"window", "incognito_window"}

\* enable_tor: nothing to do when this manager is enabled; False when Tor's
\* port does not answer; otherwise the class socket.socket names now is kept
\* as default_socket and socket.socket becomes socks.socksocket
EnableTor(m) ==
    /\ variant = "tor"
    /\ pc = "loop"
    /\ IF tor_enabled[m]
       THEN /\ UNCHANGED torVars
            /\ last' = Cmd("enable_tor", <<>>, "ok", FALSE)
       ELSE \E is_tor_running \in BOOLEAN :
              IF ~is_tor_running
              THEN /\ UNCHANGED torVars
                   /\ last' = Cmd("enable_tor", <<>>, "failed", FALSE)
              ELSE /\ default_socket' =
                        [default_socket EXCEPT ![m] = socket_socket]
                   /\ socket_socket' = "socksocket"
                   /\ tor_enabled' = [tor_enabled EXCEPT ![m] = TRUE]
                   /\ last' = Cmd("enable_tor", <<>>, "ok", FALSE)
    /\ UNCHANGED <<variant, pc, browserVars, incognito_mode, storeVars>>
    /\ UNCHANGED <<extractorVars, tabVars>>

\* disable_tor: False when this manager is not enabled or kept no socket;
\* otherwise socket.socket becomes what this manager kept
DisableTor(m) ==
    /\ variant = "tor"
    /\ pc = "loop"
    /\ IF ~tor_enabled[m] \/ default_socket[m] = "None"
       THEN /\ UNCHANGED torVars
            /\ last' = Cmd("disable_tor", <<>>, "failed", FALSE)
       ELSE /\ socket_socket' = default_socket[m]
            /\ tor_enabled' = [tor_enabled EXCEPT ![m] = FALSE]
            /\ UNCHANGED default_socket
            /\ last' = Cmd("disable_tor", <<>>, "ok", FALSE)
    /\ UNCHANGED <<variant, pc, browserVars, incognito_mode, storeVars>>
    /\ UNCHANGED <<extractorVars, tabVars>>

(***************************************************************************)
(* ModernBrowser, BrowserTabs and BrowserTab (browser_final.py), over      *)
(* db_manager.py.                                                          *)
(***************************************************************************)
\* BrowserTab.__init__: _url = QUrl(), _title = "New Tab"
NewTabTitle == <<"N">>
NewTab == [url |-> NoneStr, title |-> NewTabTitle]

\* db_manager.add_visit(url, title), its return value dropped: the tables
\* it can leave. Nothing is written for a url without a netloc; a row is
\* written unless execute raises
AddVisitRows(table, url, title) ==
    IF VisitIsSkipped("db_manager", FALSE, url) THEN {table}
    ELSE {table, InsertVisit(table, url, title)}

\* update_address_bar(url): every url but "about:blank" is written to the
\* visits table with the title of the current tab
UpdateAddressBar(table, url, title) ==
    IF url = AboutBlank THEN {table} ELSE AddVisitRows(table, url, title)

\* BrowserTab.load(url) of the tab at index i, which is the current tab:
\* the address bar is updated first; a blocked url ends there; a url whose
\* domain resolves is written by add_visit(url, domain) and the domain
\* becomes the title
TabLoad(op, shown, i, url) ==
    \E rows1 \in UpdateAddressBar(visits, url, shown[i + 1].title) :
      LET located == [shown EXCEPT ![i + 1].url = url]
          domain == Netloc(url)
      IN  IF url # AboutBlank /\ IsDomainBlocked(url, blocked_domains)
          THEN /\ Len(rows1) <= MaxVisits
               /\ visits' = rows1
               /\ tabs' = located
               /\ last' = FetchCmd(op, url, url, "blocked", FALSE)
          ELSE IF UrlParseRaises(url) \/ domain = <<>>
                  \/ ResolveIp(domain) = "Unknown"
          THEN /\ Len(rows1) <= MaxVisits
               /\ visits' = rows1
               /\ tabs' = located
               /\ last' = FetchCmd(op, url, url, "error", FALSE)
          ELSE \E rows2 \in AddVisitRows(rows1, url, domain) :
                 /\ Len(rows2) <= MaxVisits
                 /\ visits' = rows2
                 /\ tabs' = [located EXCEPT ![i + 1].title = domain]
                 /\ last' = FetchCmd(op, url, url, "loaded", TRUE)

\* add_new_tab(qurl): the new tab becomes the current one, and currentChanged
\* runs on_tab_change on its empty url. __init__ passes the start page; the
\* "+" button and the menu pass the bool of their signal, which load ignores
TabsAddNewTab ==
    /\ variant = "tabs"
    /\ pc \in {"start", "loop"}
    /\ Len(tabs) < MaxTabs
    /\ pc' = "loop"
    /\ current_tab' = Len(tabs)
    /\ IF pc = "start"
       THEN TabLoad("new_tab", Append(tabs, NewTab), Len(tabs), GoogleUrl)
       ELSE \E rows \in UpdateAddressBar(visits, NoneStr, NewTabTitle) :
              /\ visits' = rows
              /\ tabs' = Append(tabs, NewTab)
              /\ last' = Cmd("new_tab", <<>>, "ok", FALSE)
    /\ UNCHANGED <<variant, browserVars, incognito_mode, db_incognito,
                   connected, blocked_domains, firewall, settings>>
    /\ UNCHANGED <<extractorVars, torVars>>

\* what is typed into the address bar
TabInputs == {HostXA}

\* navigate_to_url(url_string): http:// is put in front, a blocked url is
\* refused, anything else is loaded into the current tab
TabsNavigate(url_string) ==
    /\ variant = "tabs"
    /\ pc = "loop"
    /\ LET url == IF StartsWith(url_string, HTTP)
                     \/ StartsWith(url_string, HTTPS)
                  THEN url_string ELSE HTTP \o url_string
       IN  IF IsDomainBlocked(url, blocked_domains)
           THEN /\ UNCHANGED <<visits, tabs>>
                /\ last' = FetchCmd("load", url_string, url, "blocked", FALSE)
           ELSE TabLoad("load", tabs, current_tab, url)
    /\ UNCHANGED <<variant, pc, browserVars, incognito_mode, db_incognito,
                   connected, blocked_domains, firewall, settings>>
    /\ UNCHANGED <<extractorVars, torVars, current_tab>>

\* another tab is clicked: currentChanged runs on_tab_change, which gives
\* the tab's url to update_address_bar
TabsSwitch(index) ==
    /\ variant = "tabs"
    /\ pc = "loop"
    /\ index \in 0..(Len(tabs) - 1)
    /\ index # current_tab
    /\ current_tab' = index
    /\ \E rows \in UpdateAddressBar(visits, tabs[index + 1].url,
                                    tabs[index + 1].title) :
         /\ Len(rows) <= MaxVisits
         /\ visits' = rows
    /\ last' = Cmd("switch", <<>>, "ok", FALSE)
    /\ UNCHANGED <<variant, pc, browserVars, incognito_mode, db_incognito,
                   connected, blocked_domains, firewall, settings>>
    /\ UNCHANGED <<extractorVars, torVars, tabs>>

(***************************************************************************)
(* The specification.                                                      *)
(***************************************************************************)
Variants ==
    {"cli", "links", "simple", "gui", "extract", "tor", "tabs"} \cup ApiVariants

\* the stores the api variants construct: DatabaseManager(incognito), and
\* DatabaseManager() of db_manager.py
ApiModes(v) == IF v \in {"api", "api_cli"} THEN BOOLEAN ELSE {FALSE}

\* the process starts: nothing is constructed yet, the database is empty
Init ==
    /\ variant \in Variants
    /\ pc = IF variant = "extract" THEN "feed" ELSE "new"
    /\ history = <<>>
    /\ current_index = -1
    /\ current_url = NoneStr
    /\ incognito_mode = FALSE
    /\ db_incognito = FALSE
    /\ connected = FALSE
    /\ blocked_domains = <<>>
    /\ firewall = <<>>
    /\ visits = <<>>
    /\ settings = NoneStr
    /\ last = Cmd("none", <<>>, "none", FALSE)
    /\ parser = NewParser
    /\ fed = <<>>
    /\ tor_enabled = [m \in Managers |-> FALSE]
    /\ default_socket = [m \in Managers |-> "None"]
    /\ socket_socket = "socket"
    /\ tabs = <<>>
    /\ current_tab = -1

\* the constructor of the browser builds its DatabaseManager. db_manager.py
\* calls sqlite3.connect outside any try: when it raises, the exception
\* leaves __init__; the other two classes catch it in connect()
Connect ==
    /\ variant # "extract"
    /\ pc = "new"
    /\ \E incognito \in ApiModes(variant), opened \in BOOLEAN :
          /\ NewStore(incognito, opened)
          /\ pc' = IF ~incognito /\ ~opened
                      /\ StoreClass(variant) = "db_manager"
                   THEN "raised"
                   ELSE IF variant \in ConsoleVariants \cup {"tabs"}
                   THEN "start"
                   ELSE "loop"
          /\ last' = Cmd("connect", <<>>,
                         IF pc' = "raised" THEN "raised" ELSE "ok", FALSE)
    /\ UNCHANGED otherVars
    /\ UNCHANGED <<variant, browserVars, incognito_mode, firewall, visits,
                   settings>>

Next ==
    \/ Connect
    \/ CliStart
    \/ \E input \in CliInputs : CliOpen(input)
    \/ CliGoBack
    \/ CliGoForward
    \/ CliRefresh
    \/ \E link_id \in LinkNumbers : CliFollowLink(link_id)
    \/ \E text \in CliBlockTexts : CliFirewallBlock(text)
    \/ CliFirewallUnblock
    \/ CliToggleIncognito
    \/ \E input \in SimpleInputs : SimpleNavigate(input)
    \/ SimpleGoBack
    \/ SimpleGoForward
    \/ \E text \in SimpleBlockInputs : SimpleBlock(text)
    \/ \E text \in SimpleBlockInputs : SimpleUnblock(text)
    \/ \E text \in DialogInputs : DialogBlock(text)
    \/ DialogUnblock
    \/ \E domain \in ApiDomains, reason \in Reasons \cup {NoReason} :
         ApiBlock(domain, reason)
    \/ \E domain \in ApiDomains : ApiUnblock(domain)
    \/ \E url \in ApiVisitUrls : ApiAddVisit(url)
    \/ \E value \in SettingValues : ApiSaveSetting(value)
    \/ \E incognito \in BOOLEAN : ApiReopen(incognito)
    \/ \E tag \in DocTags, attrs \in DocAttrs : HandleStartTag(tag, attrs)
    \/ \E tag \in DocTags : HandleEndTag(tag)
    \/ \E data \in DocTexts : HandleData(data)
    \/ \E m \in Managers : EnableTor(m)
    \/ \E m \in Managers : DisableTor(m)
    \/ TabsAddNewTab
    \/ \E url_string \in TabInputs : TabsNavigate(url_string)
    \/ \E index \in 0..(MaxTabs - 1) : TabsSwitch(index)

Spec == Init /\ [][Next]_vars


(***************************************************************************)
(* Claims.                                                                 *)
(***************************************************************************)
BackOrForward == {"back", "forward"}
VisitOps == {"start", "open", "refresh"}

\* C1: for any sequence of visits, back and forward, the cursor satisfies
\* -1 <= cursor < len(entries), and it is -1 only while entries is empty.
C1_CursorInRange ==
    /\ -1 <= current_index
    /\ current_index < Len(history)
    /\ (current_index = -1 => history = <<>>)

\* a back or forward moved or re-fetched within a history of two entries
C1_Witness ==
    /\ last.op \in BackOrForward
    /\ last.result \in {"moved", "loaded"}
    /\ Len(history) >= 2

\* C2: a visit made while cursor < len(entries)-1 cuts entries to its first
\* cursor+1 elements, appends the new location and puts the cursor on the
\* last index; a forward that follows at once fails with no next entry.
C2_VisitTruncatesForward ==
    [][/\ (/\ last'.op \in VisitOps
           /\ last'.result = "loaded"
           /\ current_index < Len(history) - 1)
          => /\ history' = Append(SubSeq(history, 1, current_index + 1),
                                  current_url')
             /\ current_index' = Len(history') - 1
       /\ (/\ last.op \in VisitOps
           /\ last.result = "loaded"
           /\ last'.op = "forward")
          => /\ last'.result = "cant"
             /\ history' = history
             /\ current_index' = current_index]_vars

\* a visit discarded forward entries
C2_Witness ==
    /\ last.op = "open"
    /\ last.result = "loaded"
    /\ last.dropped > 0

\* C3: back and forward only move the cursor: once the operation, with the
\* re-fetch it triggers, has completed, entries is what it was before.
C3_BackForwardKeepEntries ==
    [][last'.op \in BackOrForward => history' = history]_vars

\* C4: with cursor > 0 a completed back leaves the cursor at the old cursor
\* minus 1 and the current location is the entry there; with
\* cursor < len(entries)-1 a completed forward leaves it at the old cursor
\* plus 1, the current location being the entry there.
C4_BackForwardMoveByOne ==
    [][/\ (/\ last'.op = "back"
           /\ last'.result \in {"moved", "loaded"}
           /\ current_index > 0)
          => /\ current_index' = current_index - 1
             /\ current_url' = PyIndex(history', current_index')
       /\ (/\ last'.op = "forward"
           /\ last'.result \in {"moved", "loaded"}
           /\ current_index < Len(history) - 1)
          => /\ current_index' = current_index + 1
             /\ current_url' = PyIndex(history', current_index')]_vars

\* C5: back with cursor <= 0 (an empty history included) and forward with
\* cursor = len(entries)-1 report that there is no previous or next entry,
\* fetch nothing and leave entries, cursor and current location unchanged.
C5_NoNeighbourIsNoOp ==
    [][(\/ last'.op = "back" /\ current_index <= 0
        \/ last'.op = "forward" /\ current_index = Len(history) - 1)
       => /\ last'.result = "cant"
          /\ ~last'.fetched
          /\ history' = history
          /\ current_index' = current_index
          /\ current_url' = current_url]_vars

\* back or forward was refused in a history of two entries
C5_Witness ==
    /\ last.op \in BackOrForward
    /\ last.result = "cant"
    /\ Len(history) >= 2

\* C6: a navigation whose location the firewall blocks fetches nothing,
\* records no visit row and leaves entries and cursor unchanged, whichever
\* way it came in (typed, link, back, forward, reload).
C6_BlockedTouchesNothing ==
    [][last'.result = "blocked"
       => /\ ~last'.fetched
          /\ visits' = visits
          /\ history' = history
          /\ current_index' = current_index]_vars

\* urls the matcher is asked about
TestUrls == {UrlA, UrlAPlain, UrlSubA, UrlXA, UrlBadBracket, AboutBlank,
             GoogleUrl, HTTP}

\* C7: is_domain_blocked(L) is true exactly when domain(L) equals some
\* blocked d or ends with "." followed by d; it is false when L cannot be
\* parsed.
C7_BlockedIffExactOrSubdomain ==
    \A url \in TestUrls :
      LET domain == Netloc(url)
      IN  IsDomainBlocked(url, blocked_domains)
            = /\ ~UrlParseRaises(url)
              /\ \E d \in Range(blocked_domains) :
                   \/ domain = d
                   \/ /\ Len(domain) > Len(d)
                      /\ SubSeq(domain, Len(domain) - Len(d), Len(domain))
                           = Dot \o d

\* a navigation to a subdomain was refused under the rule of its parent
C7_Witness ==
    /\ last.op = "open"
    /\ last.result = "blocked"
    /\ last.arg = UrlSubA
    /\ HostA \in Range(blocked_domains)
    /\ HostSubA \notin Range(blocked_domains)

\* C8: a location whose domain is empty (about:blank) is never reported
\* blocked, whatever blocks and unblocks came before, those of the firewall
\* dialogs included.
C8_EmptyDomainNeverBlocked == ~IsDomainBlocked(AboutBlank, blocked_domains)

\* the number of entries of a list equal to x
Count(list, x) == Cardinality({i \in DOMAIN list : list[i] = x})

\* C9: after block(d), called once or again, with the same or another
\* reason, there is exactly one rule for d, carrying the latest reason, in
\* the durable store and in the incognito set alike.
C9_OneRulePerDomain ==
    (last.op = "block" /\ last.result = "ok")
    => /\ Count(blocked_domains, last.arg) = 1
       /\ ~db_incognito
          => /\ Count(GetBlockedDomains(FALSE, firewall), last.arg) = 1
             /\ \A i \in DOMAIN firewall :
                  firewall[i].domain = last.arg
                    => firewall[i].reason = last.reason

\* C10: after unblock(d) has returned success, a url whose domain is d and
\* that matches no other rule is not blocked, however often block(d) was
\* called before, in durable and in incognito mode.
C10_UnblockedIsNotBlocked ==
    (/\ last.op = "unblock"
     /\ last.result = "ok"
     /\ \A b \in Range(blocked_domains) \ {last.arg} :
          ~DomainMatches(last.arg, b))
    => ~IsDomainBlocked(HTTP \o last.arg, blocked_domains)

\* C11: once a block or unblock call has returned, with success or with
\* failure, the cached list is_domain_blocked reads holds exactly the domains
\* of the durable firewall table.
C11_CacheEqualsDurable ==
    (last.op \in {"block", "unblock"} /\ last.result \in {"ok", "failed"})
    => Range(blocked_domains) = Range(GetBlockedDomains(FALSE, firewall))

\* C12: add_visit called with an empty url or with about:blank creates no
\* visit row and returns the success indicator.
C12_SkippedVisitSucceeds ==
    [][(last'.op = "add_visit" /\ last'.arg \in {NoneStr, AboutBlank})
       => /\ visits' = visits
          /\ last'.result = "ok"]_vars

\* C13: whatever is called on an incognito store (block, unblock, add_visit,
\* save_setting), the durable tables stay as they were, so that a durable
\* store opened afterwards reads the visits, blocked domains and settings
\* one opened before would have read.
C13_IncognitoLeavesNoTrace ==
    [][db_incognito => /\ firewall' = firewall
                       /\ visits' = visits
                       /\ settings' = settings]_vars

\* a block was accepted by an incognito store opened on a database that
\* holds rules and visits
C13_Witness ==
    /\ db_incognito
    /\ last.op = "block"
    /\ last.result = "ok"
    /\ firewall # <<>>
    /\ visits # <<>>

\* the calls that persist something
PersistenceOps == {"block", "unblock", "add_visit", "save_setting"}

\* C14: on an incognito store block, unblock, add_visit and save_setting
\* each return the success indicator.
C14_IncognitoCallsSucceed ==
    (db_incognito /\ last.op \in PersistenceOps) => last.result = "ok"

\* "Error:", the start of the title an error visit carries
ErrorPrefix == <<"E","r","r","o","r",":">>

\* the row a step appended to the visits table, if it appended one
AppendedVisit(before, after) ==
    IF Len(after) = Len(before) + 1 /\ SubSeq(after, 1, Len(before)) = before
    THEN {after[Len(after)]}
    ELSE {}

\* C15: when the fetch of a location that is not blocked fails, the load is
\* reported as failed and a visit row for the requested url, its title
\* starting with "Error:", is recorded.
C15_FailedFetchIsRecorded ==
    [][last'.result = "error"
       => \E row \in AppendedVisit(visits, visits') :
            /\ row.url = last'.location
            /\ StartsWith(row.title, ErrorPrefix)]_vars

\* C16: after a successful fetch of an HTML page outside incognito mode, a
\* visit row for the final location with the page title was recorded, and
\* the final location is the history entry at the cursor.
C16_HtmlVisitIsRecorded ==
    [][(/\ last'.result = "loaded"
        /\ last'.content_type = HtmlType
        /\ ~incognito_mode
        /\ connected)
       => /\ \E row \in AppendedVisit(visits, visits') :
               /\ row.url = current_url'
               /\ row.title = PageTitle(current_url')
          /\ PyIndex(history', current_index') = current_url']_vars

\* C17: after a successful fetch whose Content-Type is not text/html, the
\* body went through no extraction, a visit row with a placeholder title
\* was recorded and the location was appended to history as for any visit.
C17_NonHtmlIsOpaque ==
    [][(/\ last'.result \in {"loaded", "opaque"}
        /\ last'.content_type \notin {HtmlType, "none"}
        /\ ~incognito_mode
        /\ connected)
       => /\ ~last'.extracted
          /\ \E row \in AppendedVisit(visits, visits') : row.title # <<>>
          /\ \E url \in FinalUrls(last'.location) :
               /\ history' = Append(SubSeq(history, 1, current_index + 1), url)
               /\ current_index' = Len(history') - 1]_vars

\* the search-engine query locations
IsSearchLocation(url) == StartsWith(url, GoogleSearch)

\* C18: an input is normalized before the firewall check and the fetch see
\* it: one with a space or without a "." becomes a search-engine query,
\* any other gets http:// in front unless it starts with http:// or
\* https:// already.
C18_InputIsNormalized ==
    (last.op = "open" /\ last.arg # <<>>)
    => IF Contains(last.arg, Space) \/ ~Contains(last.arg, Dot)
       THEN IsSearchLocation(last.location)
       ELSE IF StartsWith(last.arg, HTTP) \/ StartsWith(last.arg, HTTPS)
       THEN last.location = last.arg
       ELSE last.location = HTTP \o last.arg

\* C19: no operation of the store, its construction included, lets an
\* exception of the storage reach the caller.
C19_StoreFailsSoft == pc # "raised"

\* an <a> that has an href attribute, whatever its value
IsAnchorWithHref(t) ==
    /\ t.type = "start"
    /\ t.tag = "a"
    /\ \E i \in DOMAIN t.attrs : t.attrs[i][1] = "href"

\* an <a> whose href attribute has a value that is not empty
IsAnchorWithTarget(t) == IsAnchorWithHref(t) /\ HrefOf(t.attrs) # <<>>

\* the ids of the indicators of a text stream, in its order
IndicatorsOf(stream) ==
    LET marks == SelectSeq(stream, LAMBDA e : e.kind = "indicator")
    IN  [k \in DOMAIN marks |-> marks[k].id]

\* the step that hands one more tag or text to the extractor keeps one link
\* record per anchor IsLink accepts, numbered 1..N in document order, and
\* puts the indicator of a link at the end of the text stream when, and only
\* when, the tag handed over is such an anchor
LinksFollowAnchors(IsLink(_)) ==
    LET anchors == SelectSeq(fed', IsLink)
    IN  /\ parser'.links
             = [k \in DOMAIN anchors |-> <<k, HrefOf(anchors[k].attrs)>>]
        /\ IF IsLink(fed'[Len(fed')])
           THEN parser'.result
                  = Append(parser.result, LinkIndicator(Len(anchors)))
           ELSE IndicatorsOf(parser'.result) = IndicatorsOf(parser.result)

\* C20 as stated: a document with N anchors that have an href yields N link
\* records with the ids 1..N in document order and one indicator per record
\* in the text stream, at the place of its anchor; an anchor without href
\* gets neither.
C20_LinkPerAnchorWithHref ==
    [][(variant = "extract" /\ fed' # fed)
       => LinksFollowAnchors(IsAnchorWithHref)]_vars

\* C20, amended: the anchors that count are those whose href has a value
\* that is not empty; an anchor without href, or with an empty one, gets no
\* id and no indicator.
C20_LinkPerAnchorWithTarget ==
    [][(variant = "extract" /\ fed' # fed)
       => LinksFollowAnchors(IsAnchorWithTarget)]_vars

\* two links were recorded from a document that also holds an anchor
\* without a target
C20_Witness ==
    /\ Len(parser.links) = 2
    /\ \E i \in DOMAIN fed :
         /\ fed[i].type = "start"
         /\ fed[i].tag = "a"
         /\ ~IsAnchorWithTarget(fed[i])

\* a location in absolute form: an href with a scheme is kept, an href that
\* starts with "/" is joined with the scheme and authority of the page, any
\* other href replaces what follows the last "/" of the page's path
Resolve(page, href) ==
    LET authority_end == Len(page) - Len(AfterScheme(page)) + 2
                           + Len(Netloc(page))
        origin == SubSeq(page, 1, authority_end)
        path == SubSeq(page, authority_end + 1, Len(page))
        slashes == {i \in DOMAIN path : path[i] = "/"}
        directory == IF slashes = {} THEN <<"/">>
                     ELSE SubSeq(path, 1, CHOOSE i \in slashes :
                                            \A j \in slashes : j <= i)
    IN  IF Contains(href, SchemeSep) THEN href
        ELSE IF StartsWith(href, <<"/">>) THEN origin \o href
        ELSE origin \o directory \o href

\* C21: the target of every link record is in absolute form, resolved
\* against the location of its page, so following link k navigates to that
\* absolute location
C21_FollowedLinkIsResolved ==
    [][(variant = "links" /\ last'.op = "follow"
          /\ last'.result # "no_link")
       => /\ \A k \in DOMAIN PageLinks(current_url) :
               PageLinks(current_url)[k][2]
                 = Resolve(current_url, PageLinks(current_url)[k][2])
          /\ last'.location = Resolve(current_url, last'.arg)]_vars

\* the elements that are open after tokens, outermost first: a start tag
\* opens one, an end tag closes the innermost open element of its name and
\* everything opened inside it
RECURSIVE OpenElements(_)
OpenElements(tokens) ==
    IF tokens = <<>> THEN <<>>
    ELSE LET t == tokens[Len(tokens)]
             open == OpenElements(SubSeq(tokens, 1, Len(tokens) - 1))
             same == {i \in DOMAIN open : open[i] = t.tag}
         IN  CASE t.type = "start" -> Append(open, t.tag)
               [] t.type = "end" /\ same # {} ->
                    SubSeq(open, 1, (CHOOSE i \in same :
                                       \A j \in same : j <= i) - 1)
               [] OTHER -> open

\* the parser is inside an element of ignore_tags, at any depth
InsideIgnored(tokens) ==
    \E i \in DOMAIN OpenElements(tokens) :
      OpenElements(tokens)[i] \in ignore_tags

\* C22: while the parser is inside a script, style, meta, head, svg or path
\* element, at any depth and up to that element's own end tag, a tag or text
\* handed to it appends nothing to the text stream and records no link
C22_IgnoredElementIsSilent ==
    [][(variant = "extract" /\ fed' # fed /\ InsideIgnored(fed))
       => /\ parser'.result = parser.result
          /\ parser'.links = parser.links]_vars

\* the places of the <title> start tags of a document
TitleStarts(tokens) ==
    {i \in DOMAIN tokens : tokens[i].type = "start" /\ tokens[i].tag = "title"}

\* the first <title> element of the document has been read: its start tag,
\* its text, and nothing after that but its end tag
FirstTitleIsRead(tokens) ==
    /\ TitleStarts(tokens) # {}
    /\ LET first == CHOOSE i \in TitleStarts(tokens) :
                      \A j \in TitleStarts(tokens) : i <= j
       IN  /\ Len(tokens) > first
           /\ tokens[first + 1].type = "data"
           /\ Len(tokens) > first + 1
                => /\ Len(tokens) = first + 2
                   /\ tokens[first + 2] = EndToken("title")

\* the text of the first <title> element, trimmed
FirstTitleText(tokens) ==
    LET first == CHOOSE i \in TitleStarts(tokens) :
                   \A j \in TitleStarts(tokens) : i <= j
    IN  Strip(tokens[first + 1].data)

\* C23: the extracted title is the trimmed text of the first <title>
\* element of the document, wherever that element stands, and there is no
\* title only when the document has no <title> element
C23_TitleIsFirstTitleElement ==
    /\ (variant = "extract" /\ FirstTitleIsRead(fed))
         => parser.title = FirstTitleText(fed)
    /\ (variant = "extract" /\ TitleStarts(fed) = {})
         => parser.title = NoneStr

\* C25: in the console browser no location whose domain matches a blocked
\* rule at the time of the navigation is loaded, recorded as a visit or
\* appended to the history, also when an allowed url redirects to it: a
\* navigation that loads a page ends on a location the rules do not match
C25_NoBlockedLocationIsLoaded ==
    [][(last'.result = "loaded" /\ variant \in ConsoleVariants)
       => ~IsDomainBlocked(current_url', blocked_domains)]_vars

\* C26: in the console browser, every url that a durable rule blocks right
\* before toggle_incognito switches incognito mode on is still blocked right
\* after it
C26_IncognitoKeepsFirewall ==
    [][variant = "cli" /\ ~incognito_mode /\ incognito_mode'
       => \A url \in TestUrls :
            /\ IsDomainBlocked(url, blocked_domains)
            /\ IsDomainBlocked(url, GetBlockedDomains(FALSE, firewall))
            => IsDomainBlocked(url, blocked_domains')]_vars

\* C28: a refresh leaves the history as it was, entries and cursor, whether
\* the page is fetched again or not
C28_RefreshKeepsHistory ==
    [][variant = "cli" /\ last'.op = "refresh"
       => history' = history /\ current_index' = current_index]_vars

\* C29: in the console browser, between commands, a history that is not
\* empty has current_url at its cursor
C29_CurrentUrlIsAtCursor ==
    variant = "cli" /\ pc = "loop" /\ history # <<>>
    => current_url = PyIndex(history, current_index)

\* C27: for any order of enable_tor and disable_tor calls on the TorManagers
\* of one process, while a manager reports tor_enabled the socket class of
\* the process is the SOCKS one, and once every manager reports it disabled
\* the socket class is the original one again
C27_SocketFollowsManagers ==
    variant = "tor"
    => /\ (\E m \in Managers : tor_enabled[m]) => socket_socket = "socksocket"
       /\ (\A m \in Managers : ~tor_enabled[m]) => socket_socket = "socket"

\* C30: in the GUI a load that completes writes exactly one visit row, and
\* nothing else writes one: not a load that does not complete, not opening
\* a tab, not switching between tabs
C30_OneVisitPerLoad ==
    [][variant = "tabs"
       => IF last'.result = "loaded"
          THEN Len(visits') = Len(visits) + 1
          ELSE visits' = visits]_vars

====
